---- MODULE Spec2Model ----
(***************************************************************************)
(* A model of the Cisco IOS cliconf plugin (plugins/cliconf/ios.py): the   *)
(* session protocol that the Cliconf class drives over a line-oriented     *)
(* channel (configure, edit_config, run_commands, get_device_info) and the *)
(* device behind the channel as far as the plugin reads it.                *)
(*                                                                         *)
(* Representation of text.  A candidate line is a sequence of characters   *)
(* (one-character strings), so that cmd[0] is the first element; what goes *)
(* on the wire is the flattened string.  A device reply is a sequence of   *)
(* words, "\n" separating its lines, so that the regular expressions the   *)
(* plugin applies to it can be evaluated.                                  *)
(***************************************************************************)
EXTENDS Integers, Sequences, FiniteSets, TLC

VARIABLES
    commit_confirm_immediate,   \* option commit_confirm_immediate (boolean)
    commit_confirm_timeout,     \* option commit_confirm_timeout: <<>> is None, <<n>> is n
    persistent_command_timeout, \* connection option, seconds
    device,                     \* the device behind the channel
    device_info,                \* self._device_info, a set of <<key, value>> pairs
    call,                       \* the last call of the API: arguments, sends, outcome
    ncalls                      \* number of API calls made in this session

vars == <<commit_confirm_immediate, commit_confirm_timeout,
          persistent_command_timeout, device, device_info, call, ncalls>>

options == <<commit_confirm_immediate, commit_confirm_timeout, persistent_command_timeout>>

(***************************************************************************)
(* Bounds of the model.                                                    *)
(***************************************************************************)
MaxLen == 2     \* longest candidate list of edit_config
MaxCmds == 2    \* longest command list of run_commands
MaxCalls == 3   \* calls of the API in one session
MaxBanners == 2 \* most members of the JSON object given to edit_banner
MaxMacro == 3   \* longest line list given to edit_macro
MaxLines == 4   \* most lines of a configuration given to get_diff
MaxBlocks == 3  \* most lines and banners of a document with banners

(***************************************************************************)
(* Constants of the program.                                               *)
(***************************************************************************)
DefaultCommitTimeout == 1   \* minutes, when commit_confirm_timeout is not given
SecondsPerMinute == 60

(***************************************************************************)
(* Text helpers.                                                           *)
(***************************************************************************)
RECURSIVE Flat(_)
\* the string made of the characters of cs
Flat(cs) == IF cs = <<>> THEN "" ELSE Head(cs) \o Flat(Tail(cs))

\* a variant of Truthy that tests "is not None"
Truthy_not_none(opt) == opt /= <<>>

\* Python truthiness of an optional integer: None and 0 are false
Truthy(opt) == opt /= <<>> /\ opt[1] /= 0

\* a variant of SearchArchiveNotEnabled whose pattern lost the ".*"
SearchArchiveNotEnabled_adjacent(text) ==
    \E i \in 1..(Len(text) - 2) :
        SubSeq(text, i, i + 2) = <<"Archive", "not", "enabled">>

\* re.search(r"Archive.*not.enabled", text): "Archive", later on the same line
\* "not" and, one character further, "enabled"
SearchArchiveNotEnabled(text) ==
    \E i \in 1..Len(text) : \E j \in (i + 1)..(Len(text) - 1) :
        /\ text[i] = "Archive"
        /\ text[j] = "not"
        /\ text[j + 1] = "enabled"
        /\ \A k \in i..j : text[k] /= "\n"

\* re.search(r"%No Rollback Confirmed Change pending", text)
SearchNoRollbackPending(text) ==
    \E i \in 1..(Len(text) - 4) :
        SubSeq(text, i, i + 4) = <<"%No", "Rollback", "Confirmed", "Change", "pending">>

(***************************************************************************)
(* The device, as far as the plugin depends on it.                         *)
(***************************************************************************)
RevertTimerCommand(minutes) == "configure terminal revert timer " \o ToString(minutes)

RevertTimerCommands == {RevertTimerCommand(m) : m \in {DefaultCommitTimeout, 5}}

ArchiveReply(dev) ==
    IF dev.archive
    THEN <<"The", "maximum", "archive", "configurations", "allowed", "is", "10.", "\n",
           "Archive", "#", "Name", "\n", "1", "flash:cfg-1">>
    ELSE <<"Archive", "feature", "not", "enabled">>

RollbackTimerReply(dev) ==
    IF dev.pending
    THEN <<"Time", "configured(or", "reconfigured):", "11:02:31", "\n",
           "Timer", "type:", "absolute", "timer", "\n",
           "Timer", "value:", "5", "min">>
    ELSE <<"%No", "Rollback", "Confirmed", "Change", "pending">>

\* the images a device of the model can run
VersionNames == {"iosv", "c3750", "csr"}

\* the output of "show version"
VersionText(name) ==
    CASE name = "iosv" ->
            <<"Cisco", "IOS", "Software,", "IOSv", "Software", "(VIOS-ADVENTERPRISEK9-M),",
              "Version", "15.6(3)M2,", "RELEASE", "SOFTWARE", "(fc2)", "\n",
              "R1", "uptime", "is", "1", "day,", "2", "hours", "\n",
              "System", "image", "file", "is", "\"flash0:/vios-adventerprisek9-m\"", "\n",
              "Cisco", "IOSv", "(revision", "1.0)", "with", "460033K/62464K",
              "bytes", "of", "memory.">>
      [] name = "c3750" ->
            <<"Cisco", "IOS", "Software,", "C3750", "Software", "(C3750-IPSERVICESK9-M),",
              "Version", "12.2(55)SE,", "RELEASE", "SOFTWARE", "(fc1)", "\n",
              "core", "sw", "uptime", "is", "2", "weeks", "\n",
              "System", "image", "file", "is", "\"flash:c3750-ipservicesk9-mz.bin\"", "\n",
              "cisco", "WS-C3750-24TS", "(PowerPC405)", "processor", "(revision", "H0)",
              "with", "131072K", "bytes", "of", "memory.">>
      [] name = "csr" ->
            <<"Cisco", "IOS", "XE", "Software,", "Version", "16.09.03", "\n",
              "cisco", "CSR1000V", "(VXE)", "processor", "with", "2190795K/3075K",
              "bytes", "of", "memory.">>

\* what the device answers to cmd
DeviceReply(dev, cmd) ==
    CASE cmd = "show archive" -> ArchiveReply(dev)
      [] cmd = "show version" -> VersionText(dev.version)
      [] cmd = "show vlan" -> <<"VLAN", "Name", "Status", "Ports", "\n",
                                "1", "default", "active", "Gi0/1">>
      [] cmd = "show archive config rollback timer" -> RollbackTimerReply(dev)
      [] cmd = "configure terminal" ->
            <<"Enter", "configuration", "commands,", "one", "per", "line.">>
      [] cmd \in RevertTimerCommands ->
            <<"Rollback", "Confirmed", "Change:", "Backing", "up", "current", "config">>
      [] cmd = "show clock" -> <<"*11:02:31.531", "UTC", "Sun", "Nov", "1", "2026">>
      [] cmd = "en" -> <<"%", "Ambiguous", "command:", "en">>
      [] cmd = "end " -> <<"%", "Invalid", "input", "detected">>
      [] OTHER -> <<>>

\* what a command that reached the device does to it
DeviceStep(dev, cmd) ==
    CASE cmd \in {"configure terminal", "config terminal"} ->
            [dev EXCEPT !.mode = "config"]
      [] cmd \in RevertTimerCommands ->
            [dev EXCEPT !.mode = "config", !.pending = TRUE]
      [] cmd = "end" -> [dev EXCEPT !.mode = "exec"]
      [] cmd = "configure confirm" ->
            [dev EXCEPT !.pending = FALSE]
      [] OTHER -> dev

(***************************************************************************)
(* One run of a handler.  A run carries the sends made so far, the device, *)
(* the exception that ended it ("none" while it is running) and `fails',   *)
(* the positions of the sends of this run on which the transport raises a  *)
(* connection failure.                                                     *)
(***************************************************************************)
\* exceptions: the type and the message
NoError == [type |-> "none", msg |-> ""]
ConnectionFailure == [type |-> "AnsibleConnectionFailure", msg |-> "timeout value 30 seconds reached"]
ValueError(msg) == [type |-> "ValueError", msg |-> msg]
IndexError == [type |-> "IndexError", msg |-> "string index out of range"]

StartRun(fails) ==
    [log |-> <<>>, dev |-> device, err |-> NoError, fails |-> fails,
     requests |-> <<>>, results |-> <<>>, info |-> {}, cache |-> device_info]

Running(run) == run.err = NoError

Raise(run, error) == IF Running(run) THEN [run EXCEPT !.err = error] ELSE run

\* self.send_command(cmd): the reply is the last entry of the log
send_command(run, cmd) ==
    IF ~Running(run) THEN run
    ELSE IF (Len(run.log) + 1) \in run.fails
         THEN [run EXCEPT !.log = Append(@, [cmd |-> cmd, ok |-> FALSE, reply |-> <<>>]),
                          !.err = ConnectionFailure]
         ELSE [run EXCEPT !.log = Append(@, [cmd |-> cmd, ok |-> TRUE,
                                             reply |-> DeviceReply(run.dev, cmd)]),
                          !.dev = DeviceStep(run.dev, cmd)]

LastReply(run) == run.log[Len(run.log)].reply

(***************************************************************************)
(* Cliconf.configure                                                       *)
(***************************************************************************)
\* a variant of configure whose timeout check is not strict
configure_ge(run) ==
    IF Truthy(commit_confirm_timeout) \/ commit_confirm_immediate
    THEN LET commit_timeout == IF Truthy(commit_confirm_timeout)
                               THEN commit_confirm_timeout[1]
                               ELSE DefaultCommitTimeout
             r1 == send_command(run, "show archive")
             r2 == send_command(r1, "show archive config rollback timer")
         IN  IF ~Running(r2) THEN r2
             ELSE IF persistent_command_timeout >= commit_timeout * SecondsPerMinute
                  THEN Raise(r2, ValueError("ansible_command_timeout can't be greater than commit_confirm_timeout"))
             ELSE IF SearchArchiveNotEnabled(r1.log[Len(r1.log)].reply)
                  THEN Raise(r2, ValueError("archiving not enabled on device"))
             ELSE IF ~SearchNoRollbackPending(LastReply(r2))
                  THEN Raise(r2, ValueError("Existing rollback change already pending"))
             ELSE send_command(r2, RevertTimerCommand(commit_timeout))
    ELSE send_command(run, "configure terminal")

\* a variant of configure that enters configuration mode before it checks
configure_checks_after_entry(run) ==
    IF Truthy(commit_confirm_timeout) \/ commit_confirm_immediate
    THEN LET commit_timeout == IF Truthy(commit_confirm_timeout)
                               THEN commit_confirm_timeout[1]
                               ELSE DefaultCommitTimeout
             r1 == send_command(run, "show archive")
             r2 == send_command(r1, "show archive config rollback timer")
             r3 == send_command(r2, RevertTimerCommand(commit_timeout))
         IN  IF ~Running(r3) THEN r3
             ELSE IF persistent_command_timeout > commit_timeout * SecondsPerMinute
                  THEN Raise(r3, ValueError("ansible_command_timeout can't be greater than commit_confirm_timeout"))
             ELSE IF SearchArchiveNotEnabled(r1.log[Len(r1.log)].reply)
                  THEN Raise(r3, ValueError("archiving not enabled on device"))
             ELSE IF ~SearchNoRollbackPending(r2.log[Len(r2.log)].reply)
                  THEN Raise(r3, ValueError("Existing rollback change already pending"))
             ELSE r3
    ELSE send_command(run, "configure terminal")

configure(run) ==
    IF Truthy(commit_confirm_timeout) \/ commit_confirm_immediate
    THEN LET commit_timeout == IF Truthy(commit_confirm_timeout)
                               THEN commit_confirm_timeout[1]
                               ELSE DefaultCommitTimeout
             r1 == send_command(run, "show archive")
             r2 == send_command(r1, "show archive config rollback timer")
         IN  IF ~Running(r2) THEN r2
             ELSE IF persistent_command_timeout > commit_timeout * SecondsPerMinute
                  THEN Raise(r2, ValueError("ansible_command_timeout can't be greater than commit_confirm_timeout"))
             ELSE IF SearchArchiveNotEnabled(r1.log[Len(r1.log)].reply)
                  THEN Raise(r2, ValueError("archiving not enabled on device"))
             ELSE IF ~SearchNoRollbackPending(LastReply(r2))
                  THEN Raise(r2, ValueError("Existing rollback change already pending"))
             ELSE send_command(r2, RevertTimerCommand(commit_timeout))
    ELSE send_command(run, "configure terminal")

(***************************************************************************)
(* Cliconf.edit_config.  The decorator @enable_mode and                    *)
(* check_edit_config_capability are the base class's: they send nothing,   *)
(* and the calls of the model are those they let through (a privileged     *)
(* prompt, a candidate that is not empty).                                 *)
(***************************************************************************)
\* one iteration of the loop over to_list(candidate); a line is
\* [mapping |-> FALSE, command |-> cs] for a plain string and
\* [mapping |-> TRUE, command |-> cs] for a line-with-options mapping
edit_config_line(run, line) ==
    LET cmd == line.command
    IN  IF ~Running(run) THEN run
        ELSE IF Flat(cmd) = "end" THEN run
        ELSE IF cmd = <<>> THEN Raise(run, IndexError)
        ELSE IF cmd[1] = "!" THEN run
        ELSE LET r == send_command(run, Flat(cmd))
             IN  IF ~Running(r) THEN r
                 ELSE [r EXCEPT !.results = Append(@, LastReply(r)),
                                !.requests = Append(@, Flat(cmd))]

RECURSIVE edit_config_lines(_, _)
edit_config_lines(run, lines) ==
    IF lines = <<>> THEN run
    ELSE edit_config_lines(edit_config_line(run, Head(lines)), Tail(lines))

\* a variant of edit_config that leaves configuration mode in a finally clause
edit_config_finally(run, candidate, commit) ==
    LET commit_confirm == commit_confirm_immediate
    IN  IF commit
        THEN LET r1 == configure(run)
                 r2 == edit_config_lines(r1, candidate)
                 r3 == IF Running(r2) THEN send_command(r2, "end")
                       ELSE [send_command([r2 EXCEPT !.err = NoError, !.fails = {}], "end")
                                EXCEPT !.err = r2.err]
             IN  IF commit_confirm THEN send_command(r3, "configure confirm") ELSE r3
        ELSE Raise(run, ValueError("check mode is not supported"))

\* a variant of edit_config that enters configuration mode before it looks at commit
edit_config_configure_first(run, candidate, commit) ==
    LET commit_confirm == commit_confirm_immediate
        r1 == configure(run)
    IN  IF commit
        THEN LET r2 == edit_config_lines(r1, candidate)
                 r3 == send_command(r2, "end")
             IN  IF commit_confirm THEN send_command(r3, "configure confirm") ELSE r3
        ELSE Raise(r1, ValueError("check mode is not supported"))

\* a variant of edit_config that confirms whenever the revert timer was armed
edit_config_always_confirms(run, candidate, commit) ==
    LET commit_confirm == commit_confirm_immediate \/ Truthy(commit_confirm_timeout)
    IN  IF commit
        THEN LET r1 == configure(run)
                 r2 == edit_config_lines(r1, candidate)
                 r3 == send_command(r2, "end")
             IN  IF commit_confirm THEN send_command(r3, "configure confirm") ELSE r3
        ELSE Raise(run, ValueError("check mode is not supported"))

edit_config(run, candidate, commit) ==
    LET commit_confirm == commit_confirm_immediate
    IN  IF commit
        THEN LET r1 == configure(run)
                 r2 == edit_config_lines(r1, candidate)
                 r3 == send_command(r2, "end")
             IN  IF commit_confirm THEN send_command(r3, "configure confirm") ELSE r3
        ELSE Raise(run, ValueError("check mode is not supported"))

(***************************************************************************)
(* Cliconf.run_commands                                                    *)
(***************************************************************************)
\* a variant of run_commands_item that raises whatever check_rc says
run_commands_item_reraise(run, item, check_rc) ==
    IF ~Running(run) THEN run
    ELSE IF item.output /= <<>>
         THEN Raise(run, ValueError("'output' value is not supported for run_commands"))
    ELSE LET r == send_command(run, item.command)
         IN  IF Running(r) THEN [r EXCEPT !.results = Append(@, LastReply(r))]
             ELSE r

\* one iteration of the loop over to_list(commands); an item is
\* [mapping |-> m, command |-> c, output |-> o], o being <<>> when the item
\* carries no "output"
run_commands_item(run, item, check_rc) ==
    IF ~Running(run) THEN run
    ELSE IF item.output /= <<>>
         THEN Raise(run, ValueError("'output' value is not supported for run_commands"))
    ELSE LET r == send_command(run, item.command)
         IN  IF Running(r) THEN [r EXCEPT !.results = Append(@, LastReply(r))]
             ELSE IF check_rc THEN r
             ELSE [r EXCEPT !.err = NoError, !.results = Append(@, <<r.err.msg>>)]

RECURSIVE run_commands_items(_, _, _)
run_commands_items(run, items, check_rc) ==
    IF items = <<>> THEN run
    ELSE run_commands_items(run_commands_item(run, Head(items), check_rc),
                            Tail(items), check_rc)

\* commands is <<>> for None and <<list>> for a list
run_commands(run, commands, check_rc) ==
    IF commands = <<>> THEN Raise(run, ValueError("'commands' value is required"))
    ELSE run_commands_items(run, commands[1], check_rc)

(***************************************************************************)
(* Cliconf.get_device_info and Cliconf.check_device_type.  The patterns    *)
(* are evaluated on the words of the reply.                                *)
(***************************************************************************)
LineStart(text, i) == i = 1 \/ text[i - 1] = "\n"

SameLine(text, i, k) == \A j \in i..k : text[j] /= "\n"

Least(S) == CHOOSE i \in S : \A j \in S : i <= j

Greatest(S) == CHOOSE i \in S : \A j \in S : j <= i

RECURSIVE JoinWords(_)
\* the words of a match, a space between them
JoinWords(ws) ==
    IF Len(ws) = 1 THEN ws[1] ELSE ws[1] \o " " \o JoinWords(Tail(ws))

\* word.strip(","), on the words of the model's replies
StripComma(word) ==
    CASE word = "15.6(3)M2," -> "15.6(3)M2"
      [] word = "12.2(55)SE," -> "12.2(55)SE"
      [] OTHER -> word

\* the text between the quotes of a quoted word; <<>> if word is not quoted
Unquote(word) ==
    CASE word = "\"flash0:/vios-adventerprisek9-m\"" -> <<"flash0:/vios-adventerprisek9-m">>
      [] word = "\"flash:c3750-ipservicesk9-mz.bin\"" -> <<"flash:c3750-ipservicesk9-mz.bin">>
      [] OTHER -> <<>>

\* re.search(r"Version (\S+)", data), group(1).strip(",")
ParseVersion(data) ==
    LET ms == {i \in 1..(Len(data) - 1) : data[i] = "Version" /\ data[i + 1] /= "\n"}
    IN  IF ms = {} THEN {}
        ELSE {<<"network_os_version", StripComma(data[Least(ms) + 1])>>}

\* the two patterns of model_search_strs, the first that matches
ParseModel(data) ==
    LET cisco == {s \in 1..(Len(data) - 1) :
                     LineStart(data, s) /\ data[s] \in {"Cisco", "cisco"} /\ data[s + 1] /= "\n"}
        \* r"^[Cc]isco (.+) \(revision"
        m1 == {s \in cisco : \E k \in (s + 2)..Len(data) :
                                 SameLine(data, s, k) /\ data[k] = "(revision"}
        \* r"^[Cc]isco (\S+).+bytes of .*memory"
        m2 == {s \in cisco : \E k \in (s + 2)..(Len(data) - 2) : \E m \in (k + 2)..Len(data) :
                                 /\ SameLine(data, s, m)
                                 /\ data[k] = "bytes" /\ data[k + 1] = "of"
                                 /\ data[m] \in {"memory", "memory."}}
    IN  IF m1 /= {} THEN {<<"network_os_model", data[Least(m1) + 1]>>}
        ELSE IF m2 /= {} THEN {<<"network_os_model", data[Least(m2) + 1]>>}
        ELSE {}

\* re.search(r"^(.+) uptime", data, re.M)
ParseHostname(data) ==
    LET ends(s) == {k \in (s + 1)..Len(data) : SameLine(data, s, k) /\ data[k] = "uptime"}
        ms == {s \in 1..Len(data) : LineStart(data, s) /\ data[s] /= "\n" /\ ends(s) /= {}}
    IN  IF ms = {} THEN {}
        ELSE LET s == Least(ms)
             IN  {<<"network_os_hostname", JoinWords(SubSeq(data, s, Greatest(ends(s)) - 1))>>}

\* re.search(r'image file is "(.+)"', data)
ParseImage(data) ==
    LET ms == {i \in 1..(Len(data) - 3) :
                  /\ SubSeq(data, i, i + 2) = <<"image", "file", "is">>
                  /\ Unquote(data[i + 3]) /= <<>>}
    IN  IF ms = {} THEN {} ELSE {<<"network_os_image", Unquote(data[Least(ms) + 3])[1]>>}

\* check_device_type: "L2" if "show vlan" is answered, "L3" if it raises;
\* the run goes on either way
check_device_type(run) ==
    LET r == send_command(run, "show vlan")
    IN  [r EXCEPT !.err = NoError,
                  !.info = @ \cup {<<"network_os_type", IF Running(r) THEN "L2" ELSE "L3">>}]

\* a variant of get_device_info that does not keep what it has fetched
get_device_info_not_kept(run) ==
    IF run.cache = {}
    THEN LET r0 == IF run.dev.mode = "config" THEN send_command(run, "end") ELSE run
             r1 == send_command(r0, "show version")
         IN  IF ~Running(r1) THEN r1
             ELSE LET data == LastReply(r1)
                      device_info_ == {<<"network_os", "ios">>} \cup ParseVersion(data)
                                        \cup ParseModel(data) \cup ParseHostname(data)
                                        \cup ParseImage(data)
                  IN  check_device_type([r1 EXCEPT !.info = device_info_])
    ELSE [run EXCEPT !.info = run.cache]

\* run.cache is self._device_info, run.info the value returned
get_device_info(run) ==
    IF run.cache = {}
    THEN \* self._update_cli_prompt_context(config_context=")#", exit_command="end")
         LET r0 == IF run.dev.mode = "config" THEN send_command(run, "end") ELSE run
             r1 == send_command(r0, "show version")
         IN  IF ~Running(r1) THEN r1
             ELSE LET data == LastReply(r1)
                      device_info_ == {<<"network_os", "ios">>} \cup ParseVersion(data)
                                        \cup ParseModel(data) \cup ParseHostname(data)
                                        \cup ParseImage(data)
                      r2 == check_device_type([r1 EXCEPT !.info = device_info_])
                  IN  [r2 EXCEPT !.cache = r2.info]
    ELSE [run EXCEPT !.info = run.cache]

(***************************************************************************)
(* Inputs.                                                                 *)
(***************************************************************************)
Commands == { <<"e", "n", "d">>, <<"!", "x">>, <<"i", "p">>, <<"e", "n">>, <<>> }

Lines == [mapping : {FALSE}, command : Commands]
             \cup [mapping : {TRUE}, command : {<<"e", "n", "d", " ">>}]

SeqsUpTo(S, n) == UNION {[1..k -> S] : k \in 1..n}

Candidates == SeqsUpTo(Lines, MaxLen)

RunItems == [mapping : {FALSE}, command : {"show clock", "show archive", "configure confirm"},
             output : {<<>>}]
                \cup [mapping : {TRUE}, command : {"show clock"}, output : {<<>>, <<"json">>}]

RunCommandLists == {<<>>} \cup {<<items>> : items \in SeqsUpTo(RunItems, MaxCmds)}

\* the arguments of a call, with the defaults of the signatures
Args == [candidate |-> <<>>, commit |-> TRUE, commands |-> <<>>, check_rc |-> TRUE,
         connected |-> TRUE, prompt |-> <<>>, multiline_delimiter |-> "@",
         running |-> <<>>, diff_match |-> "line", path |-> <<>>, config |-> <<>>]

NoCall == [op |-> "none", args |-> Args, before |-> device,
           log |-> <<>>, err |-> NoError, request |-> <<>>, response |-> <<>>,
           info |-> {}, diff |-> [config_diff |-> <<>>, banner_diff |-> {}],
           extracted |-> [config |-> <<>>, banners |-> {}]]

(***************************************************************************)
(* The state after construction, for every setting of the options and      *)
(* every condition the device can be in when the session starts.           *)
(***************************************************************************)
Init ==
    /\ commit_confirm_immediate \in BOOLEAN
    /\ commit_confirm_timeout \in {<<>>, <<0>>, <<5>>}
    /\ persistent_command_timeout \in {60, 200, 400}
    /\ device \in [archive : BOOLEAN, pending : BOOLEAN, mode : {"exec"}, version : {"iosv"}]
    /\ device_info = {}
    /\ call = NoCall
    /\ ncalls = 0

(***************************************************************************)
(* Actions: one call of the API each.                                      *)
(***************************************************************************)
\* the call returns or raises: what it leaves behind
Finish(op, args, run) ==
    /\ call' = [op |-> op, args |-> args, before |-> device,
                log |-> run.log, err |-> run.err,
                request |-> IF Running(run) THEN run.requests ELSE <<>>,
                response |-> IF Running(run) THEN run.results ELSE <<>>,
                info |-> IF Running(run) THEN run.info ELSE {},
                diff |-> NoCall.diff, extracted |-> NoCall.extracted]
    /\ device' = run.dev
    /\ device_info' = run.cache
    /\ ncalls' = ncalls + 1

Configure ==
    \E fails \in {{}} \cup {{k} : k \in 1..3} :
        /\ Finish("configure", Args, configure(StartRun(fails)))
        /\ UNCHANGED options

EditConfig ==
    \E candidate \in Candidates, commit \in BOOLEAN :
        \E fails \in {{}} \cup {{k} : k \in 1..(Len(candidate) + 5)} :
            /\ commit \/ fails = {}
            /\ Finish("edit_config", [Args EXCEPT !.candidate = candidate, !.commit = commit],
                      edit_config(StartRun(fails), candidate, commit))
            /\ UNCHANGED options

RunCommands ==
    \E commands \in RunCommandLists, check_rc \in BOOLEAN :
        \E fails \in SUBSET (1..(IF commands = <<>> THEN 0 ELSE Len(commands[1]))) :
            /\ Finish("run_commands", [Args EXCEPT !.commands = commands, !.check_rc = check_rc],
                      run_commands(StartRun(fails), commands, check_rc))
            /\ UNCHANGED options

\* one call of configure() or edit_config() on a fresh session, whatever the
\* options and the condition of the device
NextEdit ==
    \/ ncalls = 0 /\ Configure
    \/ ncalls = 0 /\ EditConfig

SpecEdit == Init /\ [][NextEdit]_vars

GetDeviceInfo ==
    \E fails \in SUBSET (1..3) :
        /\ Finish("get_device_info", Args, get_device_info(StartRun(fails)))
        /\ UNCHANGED options

\* the device restarts, possibly with another image
DeviceReloads ==
    /\ \E v \in VersionNames : device' = [device EXCEPT !.version = v, !.mode = "exec"]
    /\ UNCHANGED <<options, device_info, call, ncalls>>

\* a session with the plugin's default options
InitInfo ==
    /\ commit_confirm_immediate = FALSE
    /\ commit_confirm_timeout = <<>>
    /\ persistent_command_timeout = 60
    /\ device \in [archive : {TRUE}, pending : {FALSE}, mode : {"exec"}, version : VersionNames]
    /\ device_info = {}
    /\ call = NoCall
    /\ ncalls = 0

\* calls of get_device_info() and configure() in any order, on a device that
\* may change in between
NextInfo ==
    \/ ncalls < MaxCalls /\ GetDeviceInfo
    \/ ncalls < MaxCalls /\ Configure
    \/ DeviceReloads

SpecInfo == InitInfo /\ [][NextInfo]_vars

\* one call of run_commands() on a fresh session
NextRun == ncalls = 0 /\ RunCommands

SpecRun == Init /\ [][NextRun]_vars

(***************************************************************************)
(* Vocabulary of the properties: the claims' words, stated on the record   *)
(* of the last call.                                                       *)
(***************************************************************************)
\* the commands the last call put on the channel, in order
Sent == [i \in 1..Len(call.log) |-> call.log[i].cmd]

NoSendFailed == \A i \in 1..Len(call.log) : call.log[i].ok

StatusReads == {"show archive", "show archive config rollback timer"}

EntryCommands == {"configure terminal"} \cup RevertTimerCommands

EntrySent == \E i \in 1..Len(call.log) : call.log[i].cmd \in EntryCommands

\* commit_confirm_timeout is set: it holds a number of minutes (configure()
\* tests the option's truth value, so None and 0 both count as not set)
TimeoutSet == Len(commit_confirm_timeout) = 1 /\ commit_confirm_timeout[1] > 0

CommitConfirmConfigured == TimeoutSet \/ commit_confirm_immediate

\* the commit timeout in minutes, 1 when the option is not set
ClaimedTimeout == IF TimeoutSet THEN commit_confirm_timeout[1] ELSE 1

TimeoutTooLong == persistent_command_timeout > ClaimedTimeout * 60

RanConfigure == call.op = "configure" \/ (call.op = "edit_config" /\ call.args.commit)

\* the call ended with an error; a configuration error unless a send failed
FailedWithError ==
    /\ call.err /= NoError
    /\ NoSendFailed => call.err.type = "ValueError"

\* the candidate lines the spec says are sent: not exactly "end", not a comment
ShouldSend(line) ==
    /\ line.command /= <<"e", "n", "d">>
    /\ ~(Len(line.command) > 0 /\ Head(line.command) = "!")

NonSkipped(candidate) ==
    LET kept == SelectSeq(candidate, ShouldSend)
    IN  [i \in 1..Len(kept) |-> Flat(kept[i].command)]

\* the sends of the last call that are not status reads
Mutating == SelectSeq(Sent, LAMBDA c : c \notin StatusReads)

(***************************************************************************)
(* C1.  With commit-confirm configured, configure() fails whenever         *)
(* persistent_command_timeout > commit_timeout * 60 and sends no entry     *)
(* command; otherwise, with archiving enabled and no rollback pending, it  *)
(* sends "configure terminal revert timer <commit_timeout>".               *)
(***************************************************************************)
C1_TimeoutGate ==
    (RanConfigure /\ CommitConfirmConfigured) =>
        /\ TimeoutTooLong => (FailedWithError /\ ~EntrySent)
        /\ (~TimeoutTooLong /\ call.before.archive /\ ~call.before.pending /\ NoSendFailed) =>
              /\ Len(Sent) >= 3
              /\ Sent[3] = "configure terminal revert timer " \o ToString(ClaimedTimeout)

\* timeout 5 with 400 s: configure() has failed on the timeout check
C1_Witness ==
    /\ call.op = "configure"
    /\ commit_confirm_timeout = <<5>>
    /\ persistent_command_timeout = 400
    /\ call.before.archive /\ ~call.before.pending
    /\ call.err.type = "ValueError"
    /\ Len(call.log) = 2

(***************************************************************************)
(* C2.  With commit-confirm configured, configure() fails with a           *)
(* configuration error if the archive status reports archiving not enabled *)
(* and if the rollback-timer status does not report that no rollback is    *)
(* pending; it enters configuration mode only when neither holds.          *)
(***************************************************************************)
C2_ArchiveAndRollbackGate ==
    (RanConfigure /\ CommitConfirmConfigured) =>
        /\ ~call.before.archive => (FailedWithError /\ ~EntrySent)
        /\ call.before.pending => (FailedWithError /\ ~EntrySent)
        /\ EntrySent => (call.before.archive /\ ~call.before.pending)

\* a rollback was pending on a device with archiving: configure() has failed
C2_Witness ==
    /\ call.op = "configure"
    /\ CommitConfirmConfigured /\ ~TimeoutTooLong
    /\ call.before.archive /\ call.before.pending
    /\ NoSendFailed
    /\ call.err = ValueError("Existing rollback change already pending")

(***************************************************************************)
(* C3.  If a commit-confirm precondition check fails during edit_config,   *)
(* the edit is aborted with no command sent: only the status reads have    *)
(* reached the channel, and the device is as it was.                       *)
(***************************************************************************)
C3_GateAbortsEdit ==
    (/\ call.op = "edit_config" /\ call.args.commit
     /\ CommitConfirmConfigured
     /\ TimeoutTooLong \/ ~call.before.archive \/ call.before.pending) =>
        /\ call.err /= NoError
        /\ \A i \in 1..Len(Sent) : Sent[i] \in StatusReads
        /\ Mutating = <<>>
        /\ device = call.before
        /\ call.request = <<>> /\ call.response = <<>>

\* an edit with a line to send was stopped by the archive check
C3_Witness ==
    /\ call.op = "edit_config" /\ call.args.commit
    /\ CommitConfirmConfigured /\ ~call.before.archive /\ ~TimeoutTooLong
    /\ NonSkipped(call.args.candidate) /= <<>>
    /\ NoSendFailed
    /\ call.err.type = "ValueError"

(***************************************************************************)
(* C4.  In every edit_config(commit=true) run in which no send fails (and  *)
(* configure() has entered configuration mode), the commands reach the     *)
(* channel in this order: the entry command, the non-skipped candidate     *)
(* lines in input order, "end" exactly once, then "configure confirm" if   *)
(* and only if commit_confirm_immediate is set.                            *)
(***************************************************************************)
C4_CommandOrder ==
    (call.op = "edit_config" /\ call.args.commit /\ EntrySent /\ NoSendFailed) =>
        /\ Len(Mutating) >= 2
        /\ Mutating[1] \in EntryCommands
        /\ Mutating = <<Mutating[1]>> \o NonSkipped(call.args.candidate) \o <<"end">>
                        \o (IF commit_confirm_immediate THEN <<"configure confirm">> ELSE <<>>)

\* C4 restricted to the runs that return: there it holds
C4_HoldsWhenTheRunReturns ==
    call.err = NoError => C4_CommandOrder

\* the candidate lines the last call sent: what followed the entry command,
\* "end" and "configure confirm" apart
LinesSent ==
    SelectSeq(Mutating, LAMBDA c : c \notin (EntryCommands \cup {"end", "configure confirm"}))

\* the position of the entry command among the sends of the last call
EntryIndex == CHOOSE i \in 1..Len(call.log) : call.log[i].cmd \in EntryCommands

(***************************************************************************)
(* C5.  For any candidate list, edit_config sends a line if and only if    *)
(* its command is not exactly "end" and does not begin with "!"; on        *)
(* success request and response have equal length, request is the          *)
(* subsequence of sent commands in input order and response[i] is the      *)
(* channel's reply to request[i].                                          *)
(***************************************************************************)
C5_SendsExactlyNonSkipped ==
    (call.op = "edit_config" /\ call.args.commit /\ EntrySent /\ NoSendFailed) =>
        /\ LinesSent = NonSkipped(call.args.candidate)
        /\ call.err = NoError =>
              /\ Len(call.request) = Len(call.response)
              /\ call.request = NonSkipped(call.args.candidate)
              /\ \A i \in 1..Len(call.request) :
                    /\ call.log[EntryIndex + i].cmd = call.request[i]
                    /\ call.log[EntryIndex + i].reply = call.response[i]

\* C5 restricted to candidates without an empty command: there it holds
C5_HoldsForNonEmptyCommands ==
    (\A i \in 1..Len(call.args.candidate) : call.args.candidate[i].command /= <<>>)
        => C5_SendsExactlyNonSkipped

RECURSIVE Applied(_, _)
\* the device after it has received cmds
Applied(dev, cmds) ==
    IF cmds = <<>> THEN dev ELSE Applied(DeviceStep(dev, Head(cmds)), Tail(cmds))

(***************************************************************************)
(* C6.  If a send fails during edit_config, the transport error reaches    *)
(* the caller unmodified and the rest of the sequence is not sent: the     *)
(* failed send is the last one, and the device is left as the commands     *)
(* before the failure made it (in commit-confirm mode, with the revert     *)
(* timer armed).                                                           *)
(***************************************************************************)
C6_SendFailureAborts ==
    (call.op = "edit_config" /\ ~NoSendFailed) =>
        LET n == Len(call.log)
        IN  /\ call.err = ConnectionFailure
            /\ ~call.log[n].ok
            /\ \A i \in 1..(n - 1) : call.log[i].ok
            /\ device = Applied(call.before, SubSeq(Sent, 1, n - 1))
            /\ (\E i \in 1..(n - 1) : Sent[i] \in RevertTimerCommands) => device.pending
            /\ call.request = <<>> /\ call.response = <<>>

\* the send of "end" failed after a candidate line was applied under a revert timer
C6_Witness ==
    /\ call.op = "edit_config"
    /\ Len(call.log) = 5
    /\ call.log[3].cmd \in RevertTimerCommands
    /\ call.log[4].cmd = "ip" /\ call.log[4].ok
    /\ call.log[5].cmd = "end" /\ ~call.log[5].ok
    /\ device.pending /\ device.mode = "config"

(***************************************************************************)
(* C7.  edit_config with commit=false fails with "check mode is not        *)
(* supported" and sends nothing on the channel.                            *)
(***************************************************************************)
C7_CheckModeUnsupported ==
    (call.op = "edit_config" /\ ~call.args.commit) =>
        /\ call.err = ValueError("check mode is not supported")
        /\ call.log = <<>>
        /\ device = call.before

\* check mode was asked for with commit-confirm configured and a line to send
C7_Witness ==
    /\ call.op = "edit_config" /\ ~call.args.commit
    /\ CommitConfirmConfigured
    /\ NonSkipped(call.args.candidate) /= <<>>
    /\ call.err.type = "ValueError"

(***************************************************************************)
(* C8.  The entry command of configure(): revert timer 1 with              *)
(* commit_confirm_immediate set and no timeout given, revert timer T with  *)
(* commit_confirm_timeout = T, and with neither option the plain           *)
(* "configure terminal", sent without status reads and without any         *)
(* precondition check.                                                     *)
(***************************************************************************)
C8_EntryCommand ==
    RanConfigure =>
        /\ (commit_confirm_immediate /\ ~TimeoutSet /\ EntrySent) =>
              Sent[EntryIndex] = "configure terminal revert timer 1"
        /\ (TimeoutSet /\ EntrySent) =>
              Sent[EntryIndex] = "configure terminal revert timer "
                                     \o ToString(commit_confirm_timeout[1])
        /\ (~commit_confirm_immediate /\ ~TimeoutSet) =>
              /\ \A i \in 1..Len(Sent) : Sent[i] \notin StatusReads
              /\ Len(Sent) >= 1 /\ Sent[1] = "configure terminal"
              /\ call.err.type /= "ValueError"

\* immediate confirm without a timeout: the revert timer is one minute
C8_Witness ==
    /\ call.op = "configure"
    /\ commit_confirm_immediate /\ commit_confirm_timeout = <<>>
    /\ call.err = NoError
    /\ Sent = <<"show archive", "show archive config rollback timer",
                "configure terminal revert timer 1">>

\* the commands of the last run_commands call, in order
Batch == IF call.args.commands = <<>> THEN <<>> ELSE call.args.commands[1]

BatchCommands == [i \in 1..Len(Batch) |-> Batch[i].command]

\* s is an initial part of t
IsPrefix(s, t) == Len(s) <= Len(t) /\ s = SubSeq(t, 1, Len(s))

(***************************************************************************)
(* C9.  run_commands with check_rc=false never raises on a connection      *)
(* failure: every command is still sent once, in order, and the result has *)
(* one entry per command, the reply or, where the send failed, the         *)
(* failure's message text.  With check_rc=true the first connection        *)
(* failure is raised and no later command of the batch is sent.            *)
(***************************************************************************)
C9_RunCommandsFailures ==
    (call.op = "run_commands" /\ call.args.commands /= <<>>) =>
        /\ ~call.args.check_rc =>
              /\ call.err.type /= "AnsibleConnectionFailure"
              /\ (\A i \in 1..Len(Batch) : Batch[i].output = <<>>) =>
                    /\ call.err = NoError
                    /\ Sent = BatchCommands
                    /\ Len(call.response) = Len(Batch)
                    /\ \A i \in 1..Len(Batch) :
                          call.response[i] = IF call.log[i].ok
                                             THEN call.log[i].reply
                                             ELSE <<"timeout value 30 seconds reached">>
        /\ (call.args.check_rc /\ ~NoSendFailed) =>
              /\ call.err = ConnectionFailure
              /\ IsPrefix(Sent, BatchCommands)
              /\ ~call.log[Len(call.log)].ok
              /\ \A i \in 1..(Len(call.log) - 1) : call.log[i].ok

\* the first of two commands failed, the second was still sent and answered
C9_Witness ==
    /\ call.op = "run_commands" /\ ~call.args.check_rc
    /\ Len(Batch) = 2
    /\ ~call.log[1].ok /\ call.log[2].ok
    /\ call.response = <<<<"timeout value 30 seconds reached">>, call.log[2].reply>>
    /\ call.response[2] /= <<>>

(***************************************************************************)
(* C10.  The device-info cache is populated once and memoized: a call of   *)
(* get_device_info that returns leaves the cache filled with what it       *)
(* returns, a filled cache never changes, and a call that finds it filled  *)
(* sends neither "show version" nor "show vlan" and returns the cache.     *)
(***************************************************************************)
C10_DeviceInfoMemoized ==
    [][/\ device_info /= {} => device_info' = device_info
       /\ (ncalls' /= ncalls /\ call'.op = "get_device_info") =>
             IF device_info /= {}
             THEN /\ call'.err = NoError
                  /\ call'.info = device_info
                  /\ \A i \in 1..Len(call'.log) :
                        call'.log[i].cmd \notin {"show version", "show vlan"}
             ELSE call'.err = NoError =>
                     (device_info' /= {} /\ call'.info = device_info')
      ]_vars

\* a later call has answered from the cache, without a send, although the
\* device now runs another image than the cached one
C10_Witness ==
    /\ call.op = "get_device_info" /\ call.err = NoError
    /\ ncalls >= 2
    /\ call.log = <<>>
    /\ call.info = device_info
    /\ <<"network_os_version", "15.6(3)M2">> \in call.info
    /\ <<"network_os_type", "L3">> \in call.info
    /\ device.version = "csr"

(***************************************************************************)
(* set_cli_prompt_context(): the check of the prompt at the start of a     *)
(* task.  A prompt is a sequence of tokens, <<>> when get_prompt() returns *)
(* None: <<"R1", "#">>, <<"R1", "(", "config-if", ")", "#">>.              *)
(***************************************************************************)
PromptNotIdentified ==
    [type |-> "AnsibleConnectionFailure",
     msg |-> "cli prompt is not identified from the last received response window"]

\* the tokens of the model in which the text "config" occurs
ContainsConfig == {"config", "config-if", "config-sw"}

\* re.search(r"config.*\)#", prompt)
SearchConfigPrompt(prompt) ==
    \E i \in 1..Len(prompt) :
        /\ prompt[i] \in ContainsConfig
        /\ \E j \in (i + 1)..(Len(prompt) - 1) : prompt[j] = ")" /\ prompt[j + 1] = "#"

\* the same check without the test of self._connection.connected
set_cli_prompt_context_unguarded(run, connected, prompt) ==
    IF prompt = <<>> THEN Raise(run, PromptNotIdentified)
    ELSE IF SearchConfigPrompt(prompt) THEN send_command(run, "end")
    ELSE run

set_cli_prompt_context(run, connected, prompt) ==
    IF ~connected THEN run
    ELSE IF prompt = <<>> THEN Raise(run, PromptNotIdentified)
    ELSE IF SearchConfigPrompt(prompt) THEN send_command(run, "end")
    ELSE run

\* the prompt the device shows in its mode
Hostnames == {"R1", "config-sw"}

DevicePrompts(dev) ==
    IF dev.mode = "exec"
    THEN {<<h, c>> : h \in Hostnames, c \in {"#", ">"}}
    ELSE {<<h, "(", m, ")", "#">> : h \in Hostnames, m \in {"config", "config-if"}}

\* get_prompt(): the prompt matched in the last response, or None
Prompts(dev) == {<<>>} \cup DevicePrompts(dev)

SetCliPromptContext ==
    \E connected \in BOOLEAN, prompt \in Prompts(device), fails \in {{}, {1}} :
        /\ Finish("set_cli_prompt_context",
                  [Args EXCEPT !.connected = connected, !.prompt = prompt],
                  set_cli_prompt_context(StartRun(fails), connected, prompt))
        /\ UNCHANGED options

\* the session starts on a device in any mode: a previous session may have
\* left it in configuration mode
InitPrompt ==
    /\ commit_confirm_immediate = FALSE
    /\ commit_confirm_timeout = <<>>
    /\ persistent_command_timeout = 60
    /\ device \in [archive : BOOLEAN, pending : BOOLEAN, mode : {"exec", "config"},
                   version : {"iosv"}]
    /\ device_info = {}
    /\ call = NoCall
    /\ ncalls = 0

\* the check of the prompt between calls that enter configuration mode
NextPrompt ==
    \/ ncalls < MaxCalls /\ SetCliPromptContext
    \/ ncalls < MaxCalls /\ Configure

SpecPrompt == InitPrompt /\ [][NextPrompt]_vars

IsConnectionError == call.err.type = "AnsibleConnectionFailure"

\* C11 as stated: set_cli_prompt_context() fails with a connection error and
\* sends nothing when no prompt is obtainable, sends exactly one `end' and
\* does not raise when the prompt shows a configuration context, and sends
\* nothing when the prompt is an operational-mode prompt.
C11_PromptContext ==
    call.op = "set_cli_prompt_context" =>
        /\ call.args.prompt = <<>> => IsConnectionError /\ Sent = <<>>
        /\ SearchConfigPrompt(call.args.prompt) =>
                /\ Sent = <<"end">>
                /\ NoSendFailed => call.err = NoError
        /\ call.args.prompt # <<>> /\ ~SearchConfigPrompt(call.args.prompt) =>
                Sent = <<>> /\ call.err = NoError

\* C11 amended: the three cases hold on a connected connection; on a
\* connection that is not connected the call reads no prompt, sends nothing
\* and returns.
C11_PromptContextWhenConnected ==
    call.op = "set_cli_prompt_context" =>
        /\ call.args.connected => C11_PromptContext
        /\ ~call.args.connected => Sent = <<>> /\ call.err = NoError

C11_Witness ==
    /\ call.op = "set_cli_prompt_context"
    /\ call.args.connected
    /\ call.args.prompt = <<"R1", "(", "config-if", ")", "#">>
    /\ Sent = <<"end">>
    /\ call.err = NoError
    /\ call.before.mode = "config" /\ device.mode = "exec"

(***************************************************************************)
(* Cliconf.edit_banner and Cliconf.edit_macro: framed multi-line input.    *)
(***************************************************************************)
\* self.send_command(cmd, sendonly=True): the line is written and no
\* response is read
send_only(run, cmd) ==
    IF ~Running(run) THEN run
    ELSE IF (Len(run.log) + 1) \in run.fails
         THEN [run EXCEPT !.log = Append(@, [cmd |-> cmd, ok |-> FALSE, reply |-> <<>>]),
                          !.err = ConnectionFailure]
         ELSE [run EXCEPT !.log = Append(@, [cmd |-> cmd, ok |-> TRUE, reply |-> <<>>]),
                          !.dev = DeviceStep(run.dev, cmd)]

\* results.append(self.send_command(...)); requests.append(cmd)
Recorded(run, cmd) ==
    IF ~Running(run) THEN run
    ELSE [run EXCEPT !.results = Append(@, LastReply(run)), !.requests = Append(@, cmd)]

\* json.loads(candidate) of a JSON object, given as the sequence of its
\* <<name, value>> members: a dict in the order of the first occurrence of
\* each name, holding the value of its last occurrence
RECURSIVE json_loads_value(_, _, _)
json_loads_value(members, name, value) ==
    IF members = <<>> THEN value
    ELSE json_loads_value(Tail(members), name,
                          IF Head(members)[1] = name THEN Head(members)[2] ELSE value)

RECURSIVE json_loads_from(_, _)
json_loads_from(members, seen) ==
    IF members = <<>> THEN <<>>
    ELSE LET name == Head(members)[1]
         IN  IF name \in seen THEN json_loads_from(Tail(members), seen)
             ELSE <<<<name, json_loads_value(members, name, Head(members)[2])>>>>
                      \o json_loads_from(Tail(members), seen \cup {name})

json_loads(members) == json_loads_from(members, {})

\* one iteration of the loop over iteritems(banners_obj)
edit_banner_item(run, key, value, multiline_delimiter) ==
    LET declaration == key \o " " \o multiline_delimiter
        r1 == send_only(run, "config terminal")
        r2 == Recorded(send_only(r1, declaration), declaration)
        r3 == Recorded(send_only(r2, value), value)
        r4 == Recorded(send_only(r3, multiline_delimiter), multiline_delimiter)
        r5 == send_only(r4, "end")
    IN  Recorded(send_command(r5, "\n"), "\n")

RECURSIVE edit_banner_items(_, _, _)
edit_banner_items(run, items, multiline_delimiter) ==
    IF items = <<>> THEN run
    ELSE edit_banner_items(
             edit_banner_item(run, Head(items)[1], Head(items)[2], multiline_delimiter),
             Tail(items), multiline_delimiter)

\* the body of one banner, sent inside a block that is entered once
edit_banner_body(run, key, value, multiline_delimiter) ==
    LET declaration == key \o " " \o multiline_delimiter
        r2 == Recorded(send_only(run, declaration), declaration)
        r3 == Recorded(send_only(r2, value), value)
        r4 == Recorded(send_only(r3, multiline_delimiter), multiline_delimiter)
    IN  Recorded(send_command(r4, "\n"), "\n")

RECURSIVE edit_banner_bodies(_, _, _)
edit_banner_bodies(run, items, multiline_delimiter) ==
    IF items = <<>> THEN run
    ELSE edit_banner_bodies(
             edit_banner_body(run, Head(items)[1], Head(items)[2], multiline_delimiter),
             Tail(items), multiline_delimiter)

\* a variant of edit_banner that enters configuration mode once for all banners
edit_banner_one_block(run, candidate, multiline_delimiter, commit) ==
    LET banners_obj == json_loads(candidate)
    IN  IF commit /\ banners_obj # <<>>
        THEN send_only(edit_banner_bodies(send_only(run, "config terminal"),
                                          banners_obj, multiline_delimiter), "end")
        ELSE run

\* a variant of edit_banner that goes through configure() first
edit_banner_through_gate(run, candidate, multiline_delimiter, commit) ==
    LET banners_obj == json_loads(candidate)
    IN  IF commit /\ banners_obj # <<>>
        THEN edit_banner_items(send_only(configure(run), "end"),
                               banners_obj, multiline_delimiter)
        ELSE run

edit_banner(run, candidate, multiline_delimiter, commit) ==
    LET banners_obj == json_loads(candidate)
    IN  IF commit THEN edit_banner_items(run, banners_obj, multiline_delimiter)
        ELSE run

\* for line in candidate: commands += " " + line + "\n"
RECURSIVE edit_macro_body(_)
edit_macro_body(lines) ==
    IF lines = <<>> THEN ""
    ELSE " " \o Head(lines) \o "\n" \o edit_macro_body(Tail(lines))

RECURSIVE edit_macro_send_each(_, _)
edit_macro_send_each(run, lines) ==
    IF lines = <<>> THEN run
    ELSE edit_macro_send_each(Recorded(send_only(run, Head(lines)), Head(lines)), Tail(lines))

\* a variant of edit_macro that sends the lines one command at a time
edit_macro_line_by_line(run, candidate, commit) ==
    IF commit
    THEN LET r1 == send_command(run, "config terminal")
             r2 == edit_macro_send_each(r1, candidate)
             r3 == send_only(r2, "end")
         IN  Recorded(send_command(r3, "\n"), "\n")
    ELSE run

\* candidate holds at least one line (check_edit_config_capability)
\* a variant of edit_macro that does not leave configuration mode
edit_macro_stays_in_config(run, candidate, commit) ==
    IF commit
    THEN LET r1 == send_command(run, "config terminal")
             header == Head(candidate)
             rest == Tail(candidate)
         IN  IF ~Running(r1) THEN r1
             ELSE IF rest = <<>>
                  THEN Raise(r1, [type |-> "IndexError", msg |-> "pop from empty list"])
             ELSE LET multiline_delimiter == rest[Len(rest)]
                      body == SubSeq(rest, 1, Len(rest) - 1)
                      commands == header \o "\n" \o edit_macro_body(body)
                                         \o multiline_delimiter \o "\n"
                      r2 == Recorded(send_only(r1, commands), commands)
                  IN  Recorded(send_command(r2, "\n"), "\n")
    ELSE run

edit_macro(run, candidate, commit) ==
    IF commit
    THEN LET r1 == send_command(run, "config terminal")
             header == Head(candidate)
             rest == Tail(candidate)
         IN  IF ~Running(r1) THEN r1
             ELSE IF rest = <<>>
                  THEN Raise(r1, [type |-> "IndexError", msg |-> "pop from empty list"])
             ELSE LET multiline_delimiter == rest[Len(rest)]
                      body == SubSeq(rest, 1, Len(rest) - 1)
                      commands == header \o "\n" \o edit_macro_body(body)
                                         \o multiline_delimiter \o "\n"
                      r2 == Recorded(send_only(r1, commands), commands)
                      r3 == send_only(r2, "end")
                  IN  Recorded(send_command(r3, "\n"), "\n")
    ELSE run

\* the arguments of the calls
BannerMembers == {"banner motd", "banner login"} \X {"hello\nworld", "bye"}

BannerCandidates == {<<>>} \cup SeqsUpTo(BannerMembers, MaxBanners)

MacroLines == {"macro name m1", "shutdown", "@"}

MacroCandidates == SeqsUpTo(MacroLines, MaxMacro)

EditBanner ==
    \E candidate \in BannerCandidates, multiline_delimiter \in {"@", "#"}, commit \in BOOLEAN :
        \E fails \in {{}} \cup {{k} : k \in 1..(6 * Len(candidate))} :
            /\ commit \/ fails = {}
            /\ Finish("edit_banner",
                      [Args EXCEPT !.candidate = candidate, !.commit = commit,
                                   !.multiline_delimiter = multiline_delimiter],
                      edit_banner(StartRun(fails), candidate, multiline_delimiter, commit))
            /\ UNCHANGED options

EditMacro ==
    \E candidate \in MacroCandidates, commit \in BOOLEAN :
        \E fails \in {{}} \cup {{k} : k \in 1..4} :
            /\ commit \/ fails = {}
            /\ Finish("edit_macro", [Args EXCEPT !.candidate = candidate, !.commit = commit],
                      edit_macro(StartRun(fails), candidate, commit))
            /\ UNCHANGED options

\* one call of edit_banner() or edit_macro() on a fresh session
NextFrame ==
    \/ ncalls = 0 /\ EditBanner
    \/ ncalls = 0 /\ EditMacro

SpecFrame == Init /\ [][NextFrame]_vars

\* what the claims say is sent for the banners of a dict, and what is recorded
RECURSIVE BannerSends(_, _)
BannerSends(banners, delimiter) ==
    IF banners = <<>> THEN <<>>
    ELSE <<"config terminal", Head(banners)[1] \o " " \o delimiter, Head(banners)[2],
           delimiter, "end", "\n">> \o BannerSends(Tail(banners), delimiter)

RECURSIVE BannerRequests(_, _)
BannerRequests(banners, delimiter) ==
    IF banners = <<>> THEN <<>>
    ELSE <<Head(banners)[1] \o " " \o delimiter, Head(banners)[2], delimiter, "\n">>
             \o BannerRequests(Tail(banners), delimiter)

\* C12: edit_banner(commit=true) sends for each banner of the object, one
\* banner after the other: config terminal, the declaration with the
\* delimiter, the body, the delimiter, end and the empty probe line; when it
\* returns the request list holds the declaration, body, delimiter and probe
\* of each banner and the response list is as long.
C12_BannerFraming ==
    call.op = "edit_banner" /\ call.args.commit =>
        LET banners == json_loads(call.args.candidate)
            delimiter == call.args.multiline_delimiter
        IN  /\ IsPrefix(Sent, BannerSends(banners, delimiter))
            /\ call.err = NoError =>
                  /\ Sent = BannerSends(banners, delimiter)
                  /\ call.request = BannerRequests(banners, delimiter)
                  /\ Len(call.request) = 4 * Len(banners)
                  /\ Len(call.response) = Len(call.request)

C12_Witness ==
    /\ call.op = "edit_banner" /\ call.args.commit /\ call.err = NoError
    /\ Len(json_loads(call.args.candidate)) = 2
    /\ Len(Sent) = 12 /\ Sent[6] = "\n" /\ Sent[7] = "config terminal"
    /\ Len(call.request) = 8

\* [header, body_1..body_n, delimiter] as one payload
MacroPayload(lines) ==
    LET n == Len(lines) - 2
        Body[i \in 0..n] == IF i = 0 THEN "" ELSE Body[i - 1] \o " " \o lines[i + 1] \o "\n"
    IN  lines[1] \o "\n" \o Body[n] \o lines[Len(lines)] \o "\n"

WordAtoms == {"x", "y", "1", "no", "banner", "motd", "login", "hello", "bye", "removed"}

\* atoms of \s
SpaceAtoms == {" ", "\n"}

\* t in s, for strings
Contains(s, t) == \E k \in 0..(Len(s) - Len(t)) : SubSeq(s, k + 1, k + Len(t)) = t

StartsWith(s, t) == Len(t) <= Len(s) /\ SubSeq(s, 1, Len(t)) = t

RECURSIVE lstrip(_)
lstrip(s) == IF s # <<>> /\ Head(s) \in SpaceAtoms THEN lstrip(Tail(s)) ELSE s

RECURSIVE rstrip(_)
rstrip(s) ==
    IF s # <<>> /\ s[Len(s)] \in SpaceAtoms THEN rstrip(SubSeq(s, 1, Len(s) - 1)) ELSE s

strip(s) == rstrip(lstrip(s))

\* text.split("\n")
RECURSIVE split_lines(_, _)
split_lines(text, line) ==
    IF text = <<>> THEN <<line>>
    ELSE IF Head(text) = "\n" THEN <<line>> \o split_lines(Tail(text), <<>>)
    ELSE split_lines(Tail(text), Append(line, Head(text)))

SplitLines(text) == split_lines(text, <<>>)

\* "\n".join(lines)
RECURSIVE JoinLines(_)
JoinLines(lines) ==
    IF lines = <<>> THEN <<>>
    ELSE IF Len(lines) = 1 THEN lines[1]
    ELSE lines[1] \o <<"\n">> \o JoinLines(Tail(lines))

\* text.replace(old, new) and re.sub of a pattern without wildcards: the
\* occurrences are replaced from left to right, without overlap
RECURSIVE Replace(_, _, _)
Replace(text, old, new) ==
    IF text = <<>> \/ old = <<>> THEN text
    ELSE IF StartsWith(text, old)
         THEN new \o Replace(SubSeq(text, Len(old) + 1, Len(text)), old, new)
    ELSE <<Head(text)>> \o Replace(Tail(text), old, new)

(***************************************************************************)
(* NetworkConfig of ansible.netcommon (module_utils/network/common/config) *)
(* as far as get_diff uses it.  A ConfigLine is a record: raw is the line  *)
(* as read, text the stripped line, parents the indices of its ancestors   *)
(* in the list of items, root first; attached tells that the line was      *)
(* added to the children of its parent.                                    *)
(***************************************************************************)
CommentAtoms == {"!", "!!", "#"}

\* ignore_line(text): the line starts with a comment token
ignore_line(text) == Head(text) \in CommentAtoms

\* match.start(1) of ^\s*(.+)$
LineIndent(line) == Len(line) - Len(lstrip(line))

RECURSIVE PopIndents(_, _)
PopIndents(indents, line_indent) ==
    IF indents[Len(indents)] > line_indent
    THEN PopIndents(SubSeq(indents, 1, Len(indents) - 1), line_indent)
    ELSE indents

\* NetworkConfig.parse: st holds config (the items so far), ancestors and indents
RECURSIVE parse_lines(_, _)
parse_lines(lines, st) ==
    IF lines = <<>> THEN st.config
    ELSE LET line == Head(lines)
             text == strip(line)
             me == Len(st.config) + 1
         IN  IF text = <<>> \/ ignore_line(text) THEN parse_lines(Tail(lines), st)
             ELSE IF line[1] \notin SpaceAtoms
                  THEN parse_lines(Tail(lines),
                          [config |-> Append(st.config, [raw |-> line, text |-> text,
                                                         parents |-> <<>>, attached |-> FALSE]),
                           ancestors |-> <<me>>, indents |-> <<0>>])
             ELSE LET line_indent == LineIndent(line)
                      popped == PopIndents(st.indents, line_indent)
                      indents == IF line_indent > popped[Len(popped)]
                                 THEN Append(popped, line_indent) ELSE popped
                      curlevel == Len(indents) - 1
                      known == IF curlevel > Len(st.ancestors) THEN Len(st.ancestors)
                               ELSE curlevel
                      parents == SubSeq(st.ancestors, 1, known)
                  IN  IF curlevel > Len(st.ancestors)
                      THEN parse_lines(Tail(lines),
                              [config |-> Append(st.config, [raw |-> line, text |-> text,
                                                             parents |-> parents,
                                                             attached |-> FALSE]),
                               ancestors |-> st.ancestors, indents |-> indents])
                      ELSE parse_lines(Tail(lines),
                              [config |-> Append(st.config, [raw |-> line, text |-> text,
                                                             parents |-> parents,
                                                             attached |-> TRUE]),
                               ancestors |-> Append(parents, me), indents |-> indents])

\* NetworkConfig(indent=1, contents=text): the items; nothing is loaded
\* from an empty text
NetworkConfig(text) ==
    IF text = <<>> THEN <<>>
    ELSE parse_lines(SplitLines(text), [config |-> <<>>, ancestors |-> <<>>, indents |-> <<0>>])

RECURSIVE JoinTexts(_)
JoinTexts(texts) ==
    IF texts = <<>> THEN <<>>
    ELSE IF Len(texts) = 1 THEN texts[1]
    ELSE texts[1] \o <<" ">> \o JoinTexts(Tail(texts))

\* a ConfigLine as its users see it: str(line) is raw, line.parents the texts
\* of the ancestors, line.line the texts of the ancestors and of the line
\* joined by spaces (two ConfigLines are equal when their .line are equal)
View(items, i) ==
    LET parents == [k \in 1..Len(items[i].parents) |-> items[items[i].parents[k]].text]
    IN  [raw |-> items[i].raw, text |-> items[i].text, parents |-> parents,
         line |-> JoinTexts(Append(parents, items[i].text)),
         has_children |-> \E j \in 1..Len(items) :
                              /\ items[j].attached
                              /\ items[j].parents[Len(items[j].parents)] = i]

Views(items, indices) == [k \in 1..Len(indices) |-> View(items, indices[k])]

\* line in lines, for ConfigLines
In(line, lines) == \E k \in 1..Len(lines) : lines[k].line = line.line

\* the children of item i, in the order they were added
child_objs(items, i) ==
    SelectSeq([j \in 1..Len(items) |-> j],
              LAMBDA j : items[j].attached /\ items[j].parents[Len(items[j].parents)] = i)

\* NetworkConfig._expand_block: the item and its descendants in document
\* order; a child equal to a line already in the block is left out
RECURSIVE expand_block(_, _, _)
RECURSIVE expand_children(_, _, _)
expand_block(items, i, S) == expand_children(items, child_objs(items, i), Append(S, i))

expand_children(items, children, S) ==
    IF children = <<>> THEN S
    ELSE IF In(View(items, Head(children)), Views(items, S))
         THEN expand_children(items, Tail(children), S)
    ELSE expand_children(items, Tail(children), expand_block(items, Head(children), S))

\* NetworkConfig.get_object(path) for a path of one top-level line: the index
\* of the first item with that text and no parents, 0 when there is none
get_object(items, path) ==
    LET found == {i \in 1..Len(items) :
                      items[i].text = path[Len(path)] /\ items[i].parents = <<>>}
    IN  IF found = {} THEN 0 ELSE CHOOSE i \in found : \A j \in found : i <= j

\* NetworkConfig.get_block(path), <<>> standing for the ValueError "path does
\* not exist in config", which get_diff and difference() turn into []
get_block(items, path) ==
    LET obj == get_object(items, path)
    IN  IF obj = 0 THEN <<>> ELSE Views(items, expand_block(items, obj, <<>>))

\* NetworkConfig.items
Items(items) == Views(items, [i \in 1..Len(items) |-> i])

\* NetworkConfig.difference(other, path, match, replace="line") for the
\* matches line, exact and none: the items of self that other does not
\* satisfy, each behind those of its ancestors that were not listed yet
difference_updates(mine, other, match) ==
    CASE match = "line" -> SelectSeq(mine, LAMBDA item : ~In(item, other))
      [] match = "exact" ->
            IF Len(other) # Len(mine) \/ \E k \in 1..Len(mine) : mine[k].line # other[k].line
            THEN mine ELSE <<>>
      [] OTHER -> mine

RECURSIVE difference_expand(_, _, _)
difference_expand(updates, visited, expanded) ==
    IF updates = <<>> THEN expanded
    ELSE LET item == Head(updates)
             lines == [k \in 1..Len(item.parents) |-> JoinTexts(SubSeq(item.parents, 1, k))]
             fresh == SelectSeq([k \in 1..Len(lines) |-> k],
                                LAMBDA k : /\ lines[k] \notin visited
                                           /\ \A j \in 1..(k - 1) : lines[j] # lines[k])
             context == [k \in 1..Len(fresh) |-> item.parents[fresh[k]]]
         IN  difference_expand(Tail(updates),
                               visited \cup {lines[k] : k \in 1..Len(lines)} \cup {item.line},
                               expanded \o context \o <<item.text>>)

difference(self, other, path, match) ==
    LET theirs == IF path # <<>> /\ match # "line" THEN get_block(other, path)
                  ELSE Items(other)
    IN  difference_expand(difference_updates(Items(self), theirs, match), {}, <<>>)

\* dumps(objects, "commands"): the texts joined by newlines
dumps_commands(texts) == JoinLines(texts)

(***************************************************************************)
(* Cliconf._extract_banners and Cliconf._diff_banners.  A banner map is a  *)
(* set of <<key, body>> pairs, one for each key.                           *)
(***************************************************************************)
At(text, p) == IF p \in 1..Len(text) THEN text[p] ELSE ""

\* re.findall(r"^banner (\w+)", config, re.M): the names, in order
banner_cmds(config) ==
    LET starts == SelectSeq([p \in 1..Len(config) |-> p],
                            LAMBDA p : /\ p = 1 \/ config[p - 1] = "\n"
                                       /\ config[p] = "banner"
                                       /\ At(config, p + 1) = " "
                                       /\ At(config, p + 2) \in WordAtoms)
    IN  [k \in 1..Len(starts) |-> config[starts[k] + 2]]

\* re.search(r"banner %s \^C(.+?)(?=\^C)" % cmd, config, re.S): the span of
\* group 1 as <<first, last>>, <<>> when there is no match
search_banner(config, cmd) ==
    LET opening == <<"banner", " ", cmd, " ", "^C">>
        begins == {p \in 1..Len(config) :
                      /\ StartsWith(SubSeq(config, p, Len(config)), opening)
                      /\ \E q \in (p + 6)..Len(config) : config[q] = "^C"}
    IN  IF begins = {} THEN <<>>
        ELSE LET p == CHOOSE b \in begins : \A c \in begins : b <= c
                 q == CHOOSE e \in (p + 6)..Len(config) :
                          /\ config[e] = "^C"
                          /\ \A f \in (p + 6)..(e - 1) : config[f] # "^C"
             IN  <<p + 5, q - 1>>

\* the first loop: banners[key] = match.group(1).strip()
extract_banners_map(config, cmds) ==
    {LET m == search_banner(config, cmds[k])
     IN  <<<<"banner", " ", cmds[k]>>, strip(SubSeq(config, m[1], m[2]))>> :
        k \in {j \in 1..Len(cmds) : search_banner(config, cmds[j]) # <<>>}}

\* the second loop: config = config.replace(str(match.group(1)), "")
RECURSIVE extract_banners_remove(_, _)
extract_banners_remove(config, cmds) ==
    IF cmds = <<>> THEN config
    ELSE LET m == search_banner(config, Head(cmds))
         IN  IF m = <<>> THEN extract_banners_remove(config, Tail(cmds))
             ELSE extract_banners_remove(Replace(config, SubSeq(config, m[1], m[2]), <<>>),
                                         Tail(cmds))

Placeholder == <<"!!", " ", "banner", " ", "removed">>

\* re.sub(r"banner \w+ \^C\^C", "!! banner removed", config)
RECURSIVE sub_placeholder(_)
sub_placeholder(config) ==
    IF config = <<>> THEN <<>>
    ELSE IF /\ Len(config) >= 6
            /\ config[1] = "banner" /\ config[2] = " " /\ config[3] \in WordAtoms
            /\ config[4] = " " /\ config[5] = "^C" /\ config[6] = "^C"
         THEN Placeholder \o sub_placeholder(SubSeq(config, 7, Len(config)))
    ELSE <<Head(config)>> \o sub_placeholder(Tail(config))

\* the text _extract_banners returns
extract_banners_text(config) ==
    sub_placeholder(extract_banners_remove(config, banner_cmds(config)))

extract_banners(config) ==
    [config |-> extract_banners_text(config),
     banners |-> extract_banners_map(config, banner_cmds(config))]

\* have.get(key): <<>> for None, <<body>> otherwise
Get(banners, key) ==
    IF \E kv \in banners : kv[1] = key
    THEN <<(CHOOSE kv \in banners : kv[1] = key)[2]>>
    ELSE <<>>

diff_banners(want, have) == {kv \in want : <<kv[2]>> # Get(have, kv[1])}

(***************************************************************************)
(* Cliconf.get_diff                                                        *)
(***************************************************************************)
\* re.sub("\n\n", "\n", candidate)
remove_blank_lines(candidate) == Replace(candidate, <<"\n", "\n">>, <<"\n">>)

Blank(line) == strip(line) = <<>>

\* the first line after line j that is not blank, the last line when all are
RECURSIVE NextNonBlank(_, _)
NextNonBlank(lines, j) ==
    IF j >= Len(lines) THEN Len(lines)
    ELSE IF ~Blank(lines[j + 1]) THEN j + 1
    ELSE NextNonBlank(lines, j + 1)

\* the last line that (?P<child>(?:\s+.*\n?)*) takes when it starts at line j:
\* a line that begins with a space is taken; at a blank line \s+ runs over
\* the newlines into the next line that is not blank, which .* then takes
RECURSIVE child_end(_, _)
child_end(lines, j) ==
    IF j > Len(lines) THEN j - 1
    ELSE IF Blank(lines[j])
         THEN IF j = Len(lines) THEN (IF lines[j] = <<>> THEN j - 1 ELSE j)
              ELSE child_end(lines, NextNonBlank(lines, j) + 1)
    ELSE IF lines[j][1] = " " THEN child_end(lines, j + 1)
    ELSE j - 1

\* re.findall(cand_pattern, candidate, re.M): the lines of each match, the
\* first being the (?P<parent>^\w.*\n?) line
RECURSIVE findall_candidates(_, _)
findall_candidates(lines, i) ==
    IF i > Len(lines) THEN <<>>
    ELSE IF lines[i] # <<>> /\ lines[i][1] \in WordAtoms
         THEN LET last == child_end(lines, i + 1)
              IN  <<SubSeq(lines, i, last)>> \o findall_candidates(lines, last + 1)
    ELSE findall_candidates(lines, i + 1)

\* i in negates, negates being the string of the lines emitted so far
InEmitted(i, emitted) == \E k \in 1..Len(emitted) : Contains(emitted[k].text, i)

\* the loop over have_lines: what is appended to negates, one entry for each
\* line; `of' is the have-line the entry was emitted for
RECURSIVE exact_negates(_, _, _, _)
exact_negates(have_lines, want_lines, negates, negated_parents) ==
    IF have_lines = <<>> THEN negates
    ELSE LET line == Head(have_lines)
         IN  IF In(line, want_lines)
             THEN exact_negates(Tail(have_lines), want_lines, negates, negated_parents)
             ELSE LET parents == SelectSeq(line.parents,
                                           LAMBDA i : /\ ~InEmitted(i, negates)
                                                      /\ i \notin negated_parents)
                      context == [k \in 1..Len(parents) |->
                                     [kind |-> "context", text |-> parents[k], of |-> line]]
                      command == IF StartsWith(strip(line.text), <<"no", " ">>)
                                 THEN line.raw
                                 ELSE <<"no", " ">> \o line.raw
                  IN  exact_negates(Tail(have_lines), want_lines,
                          negates \o context
                                  \o <<[kind |-> "negate", text |-> command, of |-> line]>>,
                          IF line.has_children THEN negated_parents \cup {line.text}
                          ELSE negated_parents)

\* a variant of exact_wants that puts the parents before every line
RECURSIVE exact_wants_all_parents(_, _, _)
exact_wants_all_parents(want_lines, have_lines, wants) ==
    IF want_lines = <<>> THEN wants
    ELSE LET line == Head(want_lines)
         IN  IF In(line, have_lines)
             THEN exact_wants_all_parents(Tail(want_lines), have_lines, wants)
             ELSE LET context == [k \in 1..Len(line.parents) |->
                                     [kind |-> "context", text |-> line.parents[k],
                                      of |-> line]]
                  IN  exact_wants_all_parents(Tail(want_lines), have_lines,
                          wants \o context
                                \o <<[kind |-> "add", text |-> line.raw, of |-> line]>>)

\* the loop over want_lines: what is appended to wants
RECURSIVE exact_wants(_, _, _)
exact_wants(want_lines, have_lines, wants) ==
    IF want_lines = <<>> THEN wants
    ELSE LET line == Head(want_lines)
         IN  IF In(line, have_lines)
             THEN exact_wants(Tail(want_lines), have_lines, wants)
             ELSE LET parents == SelectSeq(line.parents, LAMBDA i : ~InEmitted(i, wants))
                      context == [k \in 1..Len(parents) |->
                                     [kind |-> "context", text |-> parents[k], of |-> line]]
                  IN  exact_wants(Tail(want_lines), have_lines,
                          wants \o context
                                \o <<[kind |-> "add", text |-> line.raw, of |-> line]>>)

\* one round of the loop over candidates: path, have_lines and want_lines
SectionPath(section) == <<strip(section[1])>>

\* a variant of HaveLines that finds no block in the running configuration
HaveLines_not_found(section, running) == <<>>

HaveLines(section, running) == get_block(NetworkConfig(running), SectionPath(section))

WantLines(section) == get_block(NetworkConfig(JoinLines(section)), SectionPath(section))

Negates(section, running) ==
    exact_negates(HaveLines(section, running), WantLines(section), <<>>, {})

Wants(section, running) ==
    exact_wants(WantLines(section), HaveLines(section, running), <<>>)

\* the string made of the entries, each followed by a newline
RECURSIVE Emitted(_)
Emitted(entries) ==
    IF entries = <<>> THEN <<>>
    ELSE Head(entries).text \o <<"\n">> \o Emitted(Tail(entries))

\* a variant of exact_sections that puts the additions of a section first
RECURSIVE exact_sections_additions_first(_, _)
exact_sections_additions_first(candidates, running) ==
    IF candidates = <<>> THEN <<>>
    ELSE Emitted(Wants(Head(candidates), running))
             \o Emitted(Negates(Head(candidates), running))
             \o exact_sections_additions_first(Tail(candidates), running)

RECURSIVE exact_sections(_, _)
exact_sections(candidates, running) ==
    IF candidates = <<>> THEN <<>>
    ELSE Emitted(Negates(Head(candidates), running))
             \o Emitted(Wants(Head(candidates), running))
             \o exact_sections(Tail(candidates), running)

Candidates_of(candidate) == findall_candidates(SplitLines(remove_blank_lines(candidate)), 1)

\* the branch that get_diff takes
ExactWithoutPath(candidate, diff_match, path) ==
    Candidates_of(candidate) # <<>> /\ path = <<>> /\ diff_match = "exact"

\* the else branch
get_diff_general(candidate, running, diff_match, path) ==
    LET want == extract_banners(candidate)
        candidate_obj == NetworkConfig(want.config)
        have == extract_banners(running)
        compared == running # <<>> /\ diff_match # "none"
        configdiffobjs == IF compared
                          THEN difference(candidate_obj, NetworkConfig(have.config),
                                          path, diff_match)
                          ELSE [k \in 1..Len(candidate_obj) |-> candidate_obj[k].text]
        have_banners == IF compared THEN have.banners ELSE {}
    IN  [config_diff |-> dumps_commands(configdiffobjs),
         banner_diff |-> diff_banners(want.banners, have_banners)]

get_diff(candidate, running, diff_match, path) ==
    IF ExactWithoutPath(candidate, diff_match, path)
    THEN [config_diff |-> rstrip(exact_sections(Candidates_of(candidate), running)),
          banner_diff |-> {}]
    ELSE get_diff_general(remove_blank_lines(candidate), running, diff_match, path)

(***************************************************************************)
(* The texts given to get_diff and _extract_banners.                       *)
(***************************************************************************)
LineTexts == {<<"x">>, <<"x", "1">>, <<"y">>}

Indents == {<<>>, <<" ">>, <<" ", " ">>}

\* a command at some depth, or a blank line
LineForms == {indent \o text : indent \in Indents, text \in LineTexts} \cup {<<>>}

\* the last line of lines that is not blank
RECURSIVE LastCommand(_)
LastCommand(lines) ==
    IF lines[Len(lines)] # <<>> THEN lines[Len(lines)]
    ELSE LastCommand(SubSeq(lines, 1, Len(lines) - 1))

\* the lines of a configuration as a device or a template renders it: it
\* starts with a top-level command and a command is at most one level below
\* the command above it
RECURSIVE WellIndented(_, _, _)
WellIndented(first, forms, n) ==
    IF n = 1 THEN {<<text>> : text \in first}
    ELSE {Append(lines, form) : lines \in WellIndented(first, forms, n - 1), form \in forms}
         \cap
         {lines \in Seq(forms \cup first) :
              lines[n] # <<>> =>
                  LineIndent(lines[n]) <= LineIndent(LastCommand(SubSeq(lines, 1, n - 1))) + 1}

\* no command occurs twice below the same parent
NoRepeatedLine(text) ==
    LET items == Items(NetworkConfig(text))
    IN  \A i, j \in 1..Len(items) : i # j => items[i].line # items[j].line

Configs(first, forms, n) ==
    {text \in {JoinLines(lines) :
                  lines \in {l \in UNION {WellIndented(first, forms, k) : k \in 1..n} :
                                l[Len(l)] # <<>>}} :
        NoRepeatedLine(text)}

Configurations == Configs(LineTexts, LineForms, MaxLines)

\* one section: the top-level command y and the commands below it
SectionForms ==
    {indent \o text : indent \in Indents \ {<<>>},
                      text \in {<<"x">>, <<"x", "1">>, <<"no", " ", "y">>}}

OneSection(n) == Configs({<<"y">>}, SectionForms, n)

\* documents with banners: plain lines and banners, each banner as the device
\* renders it (declaration, body, delimiter)
Banner(name, body) ==
    <<"banner", " ", name, " ", "^C", "\n">> \o body \o <<"\n", "^C">>

Blocks == {<<"hello">>, Banner("motd", <<"hello">>), Banner("motd", <<"bye">>),
           Banner("login", <<"hello">>)}

\* configurations of several short sections, with the top-level commands x and y
ShortForms == {<<"x">>, <<"y">>, <<" ", "x">>, <<" ", "x", "1">>}

Sectioned(n) == Configs({<<"x">>, <<"y">>}, ShortForms, n)

BannerDocs(n) == {<<>>} \cup {JoinLines(blocks) : blocks \in SeqsUpTo(Blocks, n)}

\* the arguments of get_diff: a configuration against itself and against an
\* empty running configuration, a section against a longer one, several
\* sections against several sections, sections under every match and path,
\* and documents with banners against each other
DiffInputs ==
    {[candidate |-> text, running |-> text, diff_match |-> "exact", path |-> <<>>] :
        text \in Configurations}
    \cup
    {[candidate |-> text, running |-> <<>>, diff_match |-> "exact", path |-> <<>>] :
        text \in Configurations}
    \cup
    {[candidate |-> candidate, running |-> running, diff_match |-> "exact", path |-> <<>>] :
        candidate \in OneSection(MaxLines - 2), running \in OneSection(MaxLines)}
    \cup
    {[candidate |-> candidate, running |-> running, diff_match |-> "exact", path |-> <<>>] :
        candidate \in Sectioned(MaxLines - 1), running \in Sectioned(MaxLines - 1)}
    \cup
    {[candidate |-> candidate, running |-> running, diff_match |-> diff_match, path |-> path] :
        candidate \in OneSection(MaxLines - 2), running \in OneSection(MaxLines - 2),
        diff_match \in {"exact", "line", "none"}, path \in {<<>>, <<<<"y">>>>}}
    \cup
    {[candidate |-> candidate, running |-> running, diff_match |-> diff_match, path |-> <<>>] :
        candidate \in BannerDocs(MaxBlocks - 1), running \in BannerDocs(MaxBlocks - 2),
        diff_match \in {"exact", "line", "none"}}

GetDiff ==
    \E input \in DiffInputs :
        /\ call' = [NoCall EXCEPT
                        !.op = "get_diff",
                        !.args = [Args EXCEPT !.candidate = input.candidate,
                                              !.running = input.running,
                                              !.diff_match = input.diff_match,
                                              !.path = input.path],
                        !.before = device,
                        !.diff = get_diff(input.candidate, input.running,
                                          input.diff_match, input.path)]
        /\ ncalls' = ncalls + 1
        /\ UNCHANGED <<options, device, device_info>>

ExtractBanners ==
    \E config \in BannerDocs(MaxBlocks) \cup OneSection(MaxLines - 2) :
        /\ call' = [NoCall EXCEPT !.op = "_extract_banners",
                                  !.args = [Args EXCEPT !.config = config],
                                  !.before = device,
                                  !.extracted = extract_banners(config)]
        /\ ncalls' = ncalls + 1
        /\ UNCHANGED <<options, device, device_info>>

\* one call of get_diff() or of _extract_banners()
NextDiff ==
    \/ ncalls = 0 /\ GetDiff
    \/ ncalls = 0 /\ ExtractBanners

\* get_diff() and _extract_banners() read neither the options nor the device
InitDiff ==
    /\ commit_confirm_immediate = FALSE
    /\ commit_confirm_timeout = <<>>
    /\ persistent_command_timeout = 60
    /\ device = [archive |-> TRUE, pending |-> FALSE, mode |-> "exec", version |-> "iosv"]
    /\ device_info = {}
    /\ call = NoCall
    /\ ncalls = 0

SpecDiff == InitDiff /\ [][NextDiff]_vars

(***************************************************************************)
(* Vocabulary of the claims about get_diff and _extract_banners.           *)
(***************************************************************************)
IsGetDiff == call.op = "get_diff"

\* the call took the branch `candidates and not path and diff_match == "exact"'
TookExactBranch ==
    IsGetDiff /\ ExactWithoutPath(call.args.candidate, call.args.diff_match, call.args.path)

\* the sections of the candidate of the call
CallSections == Candidates_of(call.args.candidate)

\* the banners of a text and what is left of it without them
BannersOf(text) == extract_banners(text).banners

\* the running banners a call compares with: none when running is empty or
\* diff_match is none
ComparedBanners ==
    IF call.args.running = <<>> \/ call.args.diff_match = "none" THEN {}
    ELSE BannersOf(call.args.running)

\* the candidate banners that differ from the running banner of the same key
ChangedBanners == {kv \in BannersOf(call.args.candidate) : kv \notin ComparedBanners}

MadeOfSections(text) ==
    /\ text # <<>>
    /\ text[1] \in WordAtoms
    /\ \A k \in 1..Len(SplitLines(text)) :
           LET line == SplitLines(text)[k]
           IN  ~Blank(line) /\ (line[1] = " " \/ line[1] \in WordAtoms)

C16_BannerDiff ==
    IsGetDiff => call.diff.banner_diff = ChangedBanners

\* the same in the calls that take the general branch
C16_HoldsInGeneralBranch ==
    IsGetDiff /\ ~TookExactBranch => call.diff.banner_diff = ChangedBanners

\* C17: in every call of get_diff the banners are taken out of both texts
\* first: the changed banners are in banner_diff, and no banner declaration
\* or delimiter line is a command of config_diff.
C17_BannersExtractedInEveryBranch ==
    IsGetDiff =>
        /\ ChangedBanners \subseteq call.diff.banner_diff
        /\ \A k \in 1..Len(SplitLines(call.diff.config_diff)) :
               LET line == SplitLines(call.diff.config_diff)[k]
               IN  line # <<"^C">> /\ ~StartsWith(line, <<"banner">>)

\* the blocks of a document of plain lines and banners, each banner being
\* the lines from its declaration to its delimiter
RECURSIVE DocBlocks(_)
DocBlocks(lines) ==
    IF lines = <<>> THEN <<>>
    ELSE IF StartsWith(Head(lines), <<"banner">>) /\ Len(lines) >= 3
         THEN <<SubSeq(lines, 1, 3)>> \o DocBlocks(SubSeq(lines, 4, Len(lines)))
    ELSE <<SubSeq(lines, 1, 1)>> \o DocBlocks(Tail(lines))

IsBannerBlock(block) == Len(block) = 3

BannerBlocks(text) ==
    {DocBlocks(SplitLines(text))[k] :
        k \in {j \in 1..Len(DocBlocks(SplitLines(text))) :
                  IsBannerBlock(DocBlocks(SplitLines(text))[j])}}

DifferentNames(text) ==
    \A k, j \in 1..Len(DocBlocks(SplitLines(text))) :
        LET a == DocBlocks(SplitLines(text))[k]
            b == DocBlocks(SplitLines(text))[j]
        IN  k # j /\ IsBannerBlock(a) /\ IsBannerBlock(b) => a[1][3] # b[1][3]

\* the document with a placeholder line in place of each banner
WithPlaceholders(text) ==
    LET blocks == DocBlocks(SplitLines(text))
    IN  JoinLines([k \in 1..Len(blocks) |->
                      IF IsBannerBlock(blocks[k]) THEN Placeholder ELSE blocks[k][1]])

\* C18: _extract_banners on a document without banners returns an empty map
\* and the text unchanged; on a document whose banners have different names
\* it maps each key to the trimmed body of that banner and returns the text
\* with each banner replaced by the placeholder line and every other line
\* unchanged, whatever the bodies are.
C18_ExtractBanners ==
    call.op = "_extract_banners" /\ DifferentNames(call.args.config) =>
        /\ call.extracted.banners =
               {<<SubSeq(block[1], 1, 3), strip(block[2])>> :
                   block \in BannerBlocks(call.args.config)}
        /\ call.extracted.config = WithPlaceholders(call.args.config)

\* the have-lines of a section that the want-lines do not hold
Absent(section) ==
    SelectSeq(HaveLines(section, call.args.running),
              LAMBDA line : ~In(line, WantLines(section)))

\* line lies below a have-line of the section that is absent from the want-lines
BelowAbsent(line, section) ==
    \E k \in 1..Len(line.parents) :
        \E j \in 1..Len(Absent(section)) :
            Absent(section)[j].line = JoinTexts(SubSeq(line.parents, 1, k))

\* the lines a group of entries negates or adds, in order
Commands_of(entries) ==
    LET commands == SelectSeq(entries, LAMBDA e : e.kind # "context")
    IN  [k \in 1..Len(commands) |-> commands[k].of]

\* C19: in the exact branch without path the negated lines of a section are
\* the have-lines absent from the want-lines, without those that lie below
\* an absent have-line (the negation of the ancestor covers them).
C19_NegateOncePerParent ==
    TookExactBranch =>
        \A k \in 1..Len(CallSections) :
            Commands_of(Negates(CallSections[k], call.args.running))
                = SelectSeq(Absent(CallSections[k]),
                            LAMBDA line : ~BelowAbsent(line, CallSections[k]))

\* every absent have-line is negated, covered or not
C19_EveryAbsentLineIsNegated ==
    TookExactBranch =>
        \A k \in 1..Len(CallSections) :
            Commands_of(Negates(CallSections[k], call.args.running)) = Absent(CallSections[k])

\* entry q of the group sets the context of the ancestor with these texts
SetsContext(entries, q, ancestors) ==
    \/ entries[q].kind = "context" /\ entries[q].text = ancestors[Len(ancestors)]
    \/ entries[q].kind = "add" /\ entries[q].of.line = JoinTexts(ancestors)

\* the first n ancestors of entry p have their context set, in order, before
\* position `before'
RECURSIVE ContextBefore(_, _, _, _)
ContextBefore(entries, p, n, before) ==
    IF n = 0 THEN TRUE
    ELSE \E q \in 1..(before - 1) :
             /\ SetsContext(entries, q, SubSeq(entries[p].of.parents, 1, n))
             /\ ContextBefore(entries, p, n - 1, q)

InContext(entries) ==
    \A p \in 1..Len(entries) :
        entries[p].kind # "context" =>
            ContextBefore(entries, p, Len(entries[p].of.parents), p)

\* the same for the negations of a section, leaving aside the lines below
\* an absent have-line
NegatesInContext(section) ==
    LET entries == Negates(section, call.args.running)
    IN  \A p \in 1..Len(entries) :
            entries[p].kind # "context" /\ ~BelowAbsent(entries[p].of, section) =>
                ContextBefore(entries, p, Len(entries[p].of.parents), p)

\* C20: in the exact branch without path every command for a nested line, a
\* negation or an addition, comes in its group after the context lines of
\* all its ancestors, root first, whatever the texts of the lines are.
C20_AncestorContextFirst ==
    TookExactBranch =>
        \A k \in 1..Len(CallSections) :
            /\ NegatesInContext(CallSections[k])
            /\ InContext(Wants(CallSections[k], call.args.running))

\* the additions of a section are always in context
C20_AdditionsInContextOfNewSection ==
    TookExactBranch /\ call.args.running = <<>> =>
        \A k \in 1..Len(CallSections) : InContext(Wants(CallSections[k], <<>>))

(***************************************************************************)
(* The sections of the exact branch.                                       *)
(***************************************************************************)
\* what get_diff returns for one section given alone as the candidate
SectionAlone(section) ==
    get_diff(JoinLines(section), call.args.running, "exact", <<>>).config_diff

\* every section, given alone, is split into that same section
SplitsIntoItself(section) == Candidates_of(JoinLines(section)) = <<section>>

\* the negation and addition entries of a section, negations first
SectionEntries(section) ==
    Negates(section, call.args.running) \o Wants(section, call.args.running)

NegationsFirst(entries) ==
    \A p, q \in 1..Len(entries) :
        entries[p].kind = "add" /\ entries[q].kind = "negate" => q < p

\* the texts that are not empty, joined by newlines
JoinOutputs(outputs) ==
    JoinLines(SelectSeq(outputs, LAMBDA text : text # <<>>))

ShortCandidates ==
    { <<[mapping |-> FALSE, command |-> <<"i", "p">>]>>,
      <<[mapping |-> FALSE, command |-> <<"i", "p">>],
        [mapping |-> FALSE, command |-> <<"!", "x">>]>>,
      <<[mapping |-> FALSE, command |-> <<>>]>> }

EditConfigShort ==
    \E candidate \in ShortCandidates, commit \in BOOLEAN :
        \E fails \in {{}} \cup {{k} : k \in 1..(Len(candidate) + 5)} :
            /\ commit \/ fails = {}
            /\ Finish("edit_config", [Args EXCEPT !.candidate = candidate, !.commit = commit],
                      edit_config(StartRun(fails), candidate, commit))
            /\ UNCHANGED options

EditMacroShort ==
    \E candidate \in {<<"macro name m1", "shutdown", "@">>, <<"@">>}, commit \in BOOLEAN :
        \E fails \in {{}, {2}} :
            /\ commit \/ fails = {}
            /\ Finish("edit_macro", [Args EXCEPT !.candidate = candidate, !.commit = commit],
                      edit_macro(StartRun(fails), candidate, commit))
            /\ UNCHANGED options

EditBannerShort ==
    \E candidate \in {<<>>, <<<<"banner motd", "bye">>>>,
                      <<<<"banner motd", "bye">>, <<"banner login", "hello\nworld">>>>} :
        \E fails \in {{}, {3}} :
            /\ Finish("edit_banner", [Args EXCEPT !.candidate = candidate],
                      edit_banner(StartRun(fails), candidate, "@", TRUE))
            /\ UNCHANGED options

\* run_commands with the one command `configure confirm' or `show clock'
RunCommandsShort ==
    \E command \in {"configure confirm", "show clock"} :
        LET commands == <<<<[mapping |-> FALSE, command |-> command, output |-> <<>>]>>>>
        IN  /\ Finish("run_commands", [Args EXCEPT !.commands = commands],
                      run_commands(StartRun({}), commands, TRUE))
            /\ UNCHANGED options

\* the revert timer of the device runs out: the device rolls the change back
\* and no rollback is pending any more
TimerExpires ==
    /\ device.pending
    /\ device' = [device EXCEPT !.pending = FALSE]
    /\ UNCHANGED <<options, device_info, call, ncalls>>

\* a device with archiving enabled and no rollback pending, a command timeout
\* that passes the check, and every setting of the two commit options
InitSession ==
    /\ commit_confirm_immediate \in BOOLEAN
    /\ commit_confirm_timeout \in {<<>>, <<5>>}
    /\ persistent_command_timeout = 60
    /\ device = [archive |-> TRUE, pending |-> FALSE, mode |-> "exec", version |-> "iosv"]
    /\ device_info = {}
    /\ call = NoCall
    /\ ncalls = 0

NextSession ==
    \/ ncalls < MaxCalls /\ EditConfigShort
    \/ ncalls < MaxCalls /\ EditMacroShort
    \/ ncalls < MaxCalls /\ EditBannerShort
    \/ ncalls < MaxCalls /\ RunCommandsShort
    \/ TimerExpires

SpecSession == InitSession /\ [][NextSession]_vars

(***************************************************************************)
(* Vocabulary of the claims about sessions, stated on one step.            *)
(***************************************************************************)
\* the step is a call of op
CallOf(op) == ncalls' = ncalls + 1 /\ call'.op = op

\* what the call of the step sent
SentNext == [i \in 1..Len(call'.log) |-> call'.log[i].cmd]

ReturnsNext == call'.err = NoError

TimeoutOnly == Truthy(commit_confirm_timeout) /\ ~commit_confirm_immediate

RollbackPendingError == ValueError("Existing rollback change already pending")

InSeq(x, seq) == \E i \in 1..Len(seq) : seq[i] = x

\* C22: with only commit_confirm_timeout set, an edit_config that returns
\* has armed the revert timer and sent no `configure confirm', and an
\* edit_config with commit=true started while the device reports the
\* rollback as pending (which it does until `configure confirm' reaches it
\* or the timer runs out) fails the check and sends none of its lines; with
\* commit_confirm_immediate set, an edit_config that returns ends with
\* `configure confirm', and the edit_config after it is not refused for a
\* pending rollback.
C22_CommitConfirmSequences ==
    [][/\ CallOf("edit_config") /\ TimeoutOnly /\ ReturnsNext =>
              /\ \E c \in RevertTimerCommands : InSeq(c, SentNext)
              /\ ~InSeq("configure confirm", SentNext)
              /\ device'.pending
       /\ CallOf("edit_config") /\ call'.args.commit /\ TimeoutOnly /\ device.pending =>
              /\ ~ReturnsNext
              /\ \A i \in 1..Len(SentNext) : SentNext[i] \in StatusReads
              /\ (\A i \in 1..Len(call'.log) : call'.log[i].ok) =>
                     call'.err = RollbackPendingError
       /\ device.pending /\ ~device'.pending =>
              call' = call \/ InSeq("configure confirm", SentNext)
       /\ CallOf("edit_config") /\ commit_confirm_immediate /\ ReturnsNext =>
              /\ SentNext[Len(SentNext)] = "configure confirm"
              /\ ~device'.pending
       /\ /\ CallOf("edit_config") /\ commit_confirm_immediate
          /\ call.op = "edit_config" /\ call.err = NoError
          => call'.err # RollbackPendingError
      ]_vars

\* a second edit_config is refused because the first armed the revert timer
C22_Witness ==
    /\ TimeoutOnly
    /\ ncalls >= 2
    /\ call.op = "edit_config" /\ call.err = RollbackPendingError
    /\ call.before.pending /\ device.pending
    /\ \A i \in 1..Len(call.log) : call.log[i].cmd \in StatusReads

\* the commands that enter configuration mode
ConfigEntries == EntryCommands \cup {"config terminal"}

\* the commands of an operation that are no part of what it was given to
\* apply: the status reads, the confirmation and the probe after `end'
Housekeeping == StatusReads \cup {"configure confirm", "\n"}

\* the sends are bracketed: an entry only outside configuration mode, an
\* `end' only inside, every command to apply inside, and at the end outside
RECURSIVE Bracketed(_, _)
Bracketed(cmds, inside) ==
    IF cmds = <<>> THEN ~inside
    ELSE IF Head(cmds) \in ConfigEntries THEN ~inside /\ Bracketed(Tail(cmds), TRUE)
    ELSE IF Head(cmds) = "end" THEN inside /\ Bracketed(Tail(cmds), FALSE)
    ELSE IF Head(cmds) \in Housekeeping THEN Bracketed(Tail(cmds), inside)
    ELSE inside /\ Bracketed(Tail(cmds), inside)

EditingCall ==
    CallOf("edit_config") \/ CallOf("edit_macro") \/ CallOf("edit_banner")

\* C23: a call of edit_config, edit_macro or edit_banner that starts with the
\* channel in operational mode and returns leaves it in operational mode,
\* and what it sent is bracketed: each entry into configuration mode is
\* followed by its own `end', every command to apply lies between an entry
\* and its `end', and no entry is sent inside configuration mode; so the
\* channel is in operational mode after any sequence of calls that return.
C23_BackInOperationalMode ==
    [][EditingCall /\ device.mode = "exec" /\ ReturnsNext =>
           device'.mode = "exec" /\ Bracketed(SentNext, FALSE)]_vars

\* the last call of a session, a macro sent between its entry and its `end'
C23_Witness ==
    /\ ncalls = MaxCalls
    /\ call.op = "edit_macro" /\ call.err = NoError
    /\ call.before.mode = "exec" /\ device.mode = "exec"
    /\ Len(call.log) = 4
    /\ call.log[1].cmd = "config terminal" /\ call.log[3].cmd = "end"

\* the commands of the commit-confirm gate, and the entry of configure()
GateCommands ==
    StatusReads \cup RevertTimerCommands \cup {"configure confirm", "configure terminal"}

\* C24: whatever the two commit options are, edit_macro and edit_banner send
\* no archive or rollback status read, no `configure terminal revert timer'
\* and no `configure confirm', and enter configuration mode with
\* `config terminal'; with commit=false they send nothing and return empty
\* request and response lists without an error.
C24_NoCommitGate ==
    call.op \in {"edit_macro", "edit_banner"} =>
        /\ \A i \in 1..Len(Sent) : Sent[i] \notin GateCommands
        /\ Sent # <<>> => Sent[1] = "config terminal"
        /\ ~call.args.commit =>
               /\ Sent = <<>> /\ call.err = NoError
               /\ call.request = <<>> /\ call.response = <<>>

\* a banner is applied although both options are set and the device could
\* not pass the gate: archiving is off and a rollback is pending
C24_Witness ==
    /\ commit_confirm_immediate /\ TimeoutSet
    /\ ~call.before.archive /\ call.before.pending
    /\ call.op = "edit_banner" /\ call.args.commit /\ call.err = NoError
    /\ Len(Sent) = 6
    /\ Sent[1] = "config terminal" /\ Sent[5] = "end"

====
